---- MODULE Spec2Model ----
(***************************************************************************)
(* A model of the passport MRZ normalisation pipeline of src/utils.py      *)
(* (process_passport_mrz, format_date, get_nationality,                    *)
(* clean_passport_number) and of the service of src/main.py that calls it  *)
(* (upload_images) and keeps the ledger of form tasks (submit_form,        *)
(* process_form_task, delete_task).                                        *)
(*                                                                         *)
(* A Python str is a sequence of one-character strings; Python's None is   *)
(* the one-element sequence <<"None">>, which no str value equals because  *)
(* every element of a str is a single character.                           *)
(***************************************************************************)
EXTENDS Integers, Sequences, FiniteSets, TLC

VARIABLES
    pc,              \* position of the single caller of the pure-function specifications
    mrz_data,        \* mrz.to_dict(): raw field name -> raw str (a function on the present keys)
    mrz_detected,    \* whether read_mrz returned an MRZ
    date_field,      \* the MRZ field the string handed to format_date was read from
    date_str,        \* format_date's argument
    date_out,        \* format_date's return value
    raw_number,      \* clean_passport_number's argument
    cleaned,         \* clean_passport_number(raw_number)
    cleaned_twice,   \* clean_passport_number(cleaned)
    code,            \* get_nationality's argument
    table_file,      \* contents of nationality_map.json: code -> name
    nat_out,         \* get_nationality's return value
    formatted_data,  \* process_passport_mrz's return value
    loads,           \* number of times nationality_map.json has been opened and read
    calls,           \* per caller: the position and locals of its get_nationality call
    raised,          \* the exception that left process_passport_mrz, "" when it returned
    table_readable,  \* whether nationality_map.json can be opened and parsed
    upload,          \* what an upload_images request brings: the two file extensions
    response,        \* the HTTP response of the last request handled
    task_storage,    \* main.task_storage: task id -> TaskStatus
    background       \* the process_form_task runs submit_form has added, in order

pipelineVars == <<pc, mrz_data, mrz_detected, date_field, date_str, date_out, raw_number,
                  cleaned, cleaned_twice, code, table_file, nat_out, formatted_data, loads,
                  calls, raised, table_readable>>

serviceVars == <<upload, response, task_storage, background>>

vars == <<pipelineVars, serviceVars>>

---------------------------------------------------------------------------
(* Python values and str helpers *)

None == <<"None">>

Digits == {"0", "1", "2", "3", "4", "5", "6", "7", "8", "9"}

UpperLetters == {"A", "B", "C", "D", "E", "F", "G", "H", "I", "J", "K", "L", "M",
                 "N", "O", "P", "Q", "R", "S", "T", "U", "V", "W", "X", "Y", "Z"}

LowerLetters == {"a", "b", "c", "d", "e", "f", "g", "h", "i", "j", "k", "l", "m",
                 "n", "o", "p", "q", "r", "s", "t", "u", "v", "w", "x", "y", "z"}

Whitespace == {" "}

DigitVal(c) ==
    CASE c = "0" -> 0 [] c = "1" -> 1 [] c = "2" -> 2 [] c = "3" -> 3 [] c = "4" -> 4
      [] c = "5" -> 5 [] c = "6" -> 6 [] c = "7" -> 7 [] c = "8" -> 8 [] c = "9" -> 9

DigitChar(n) ==
    CASE n = 0 -> "0" [] n = 1 -> "1" [] n = 2 -> "2" [] n = 3 -> "3" [] n = 4 -> "4"
      [] n = 5 -> "5" [] n = 6 -> "6" [] n = 7 -> "7" [] n = 8 -> "8" [] n = 9 -> "9"

\* str.strip(): leading and trailing whitespace removed
RECURSIVE lstrip(_)
lstrip(s) == IF s # <<>> /\ Head(s) \in Whitespace THEN lstrip(Tail(s)) ELSE s

RECURSIVE rstrip(_)
rstrip(s) ==
    IF s # <<>> /\ s[Len(s)] \in Whitespace THEN rstrip(SubSeq(s, 1, Len(s) - 1)) ELSE s

strip(s) == rstrip(lstrip(s))

\* str.replace('<', ' ')
replace_filler(s) == [i \in 1..Len(s) |-> IF s[i] = "<" THEN " " ELSE s[i]]

\* dict.get(key, default)
dict_get(d, key, default) == IF key \in DOMAIN d THEN d[key] ELSE default

\* a Python slice s[lo:hi] (0-based, hi exclusive), clipped to the string
slice(s, lo, hi) ==
    LET h == IF hi > Len(s) THEN Len(s) ELSE hi
    IN  IF lo >= h THEN <<>> ELSE SubSeq(s, lo + 1, h)

\* str.upper() and str.isalnum() on the ASCII characters the model draws from
LowerSeq == <<"a", "b", "c", "d", "e", "f", "g", "h", "i", "j", "k", "l", "m",
              "n", "o", "p", "q", "r", "s", "t", "u", "v", "w", "x", "y", "z">>

UpperSeq == <<"A", "B", "C", "D", "E", "F", "G", "H", "I", "J", "K", "L", "M",
              "N", "O", "P", "Q", "R", "S", "T", "U", "V", "W", "X", "Y", "Z">>

upper_char(c) ==
    IF c \in LowerLetters THEN UpperSeq[CHOOSE i \in 1..26 : LowerSeq[i] = c] ELSE c

upper(s) == [i \in 1..Len(s) |-> upper_char(s[i])]

isalnum(c) == c \in Digits \cup UpperLetters \cup LowerLetters

\* ''.join(filter(str.isalnum, s))
RECURSIVE filter_isalnum(_)
filter_isalnum(s) ==
    IF Len(s) = 0 THEN <<>>
    ELSE IF isalnum(Head(s)) THEN <<Head(s)>> \o filter_isalnum(Tail(s))
         ELSE filter_isalnum(Tail(s))

---------------------------------------------------------------------------
(* format_date, src/utils.py:29-48 *)

\* The value of a run of decimal digits
RECURSIVE digits_value(_)
digits_value(s) ==
    IF s = <<>> THEN 0 ELSE 10 * digits_value(SubSeq(s, 1, Len(s) - 1)) + DigitVal(s[Len(s)])

\* int(s) for the two-character slices format_date takes: surrounding whitespace
\* is skipped, one sign is accepted, and what remains must be decimal digits
\* (an underscore is only legal between two digits, which needs three
\* characters); anything else raises ValueError, here ok = FALSE.
int(s) ==
    LET t    == strip(s)
        sign == IF t # <<>> /\ Head(t) \in {"+", "-"} THEN Head(t) ELSE ""
        body == IF sign = "" THEN t ELSE Tail(t)
    IN  IF body # <<>> /\ \A i \in 1..Len(body) : body[i] \in Digits
        THEN [ok |-> TRUE,
              val |-> IF sign = "-" THEN 0 - digits_value(body) ELSE digits_value(body)]
        ELSE [ok |-> FALSE, val |-> 0]

\* f"{n}" for an integer
RECURSIVE nat_str(_)
nat_str(n) == IF n < 10 THEN <<DigitChar(n)>> ELSE nat_str(n \div 10) \o <<DigitChar(n % 10)>>

int_str(n) == IF n < 0 THEN <<"-">> \o nat_str(0 - n) ELSE nat_str(n)

\* f"{n:02d}": padded with zeros to width 2, the sign counted in the width
int_str_02d(n) ==
    IF n < 0 THEN (IF n > -10 THEN <<"-">> \o nat_str(0 - n) ELSE int_str(n))
    ELSE IF n < 10 THEN <<"0">> \o nat_str(n) ELSE nat_str(n)

\* format_date with an out-of-range month or day answered by None
format_date_none_on_range(s, data) ==
    IF s = <<>> \/ Len(s) # 6 THEN None
    ELSE LET y == int(slice(s, 0, 2))
             m == int(slice(s, 2, 4))
             d == int(slice(s, 4, 6))
         IN  IF ~y.ok \/ ~m.ok \/ ~d.ok
             THEN s
             ELSE LET year == IF s = dict_get(data, "date_of_birth", <<>>)
                              THEN (IF y.val < 30 THEN 2000 + y.val ELSE 1900 + y.val)
                              ELSE 2000 + y.val
                  IN  IF m.val < 1 \/ m.val > 12 \/ d.val < 1 \/ d.val > 31
                      THEN None
                      ELSE int_str(year) \o <<"-">> \o int_str_02d(m.val)
                           \o <<"-">> \o int_str_02d(d.val)

\* format_date with the month and the day written without zero padding
format_date_unpadded(s, data) ==
    IF s = <<>> \/ Len(s) # 6 THEN None
    ELSE LET y == int(slice(s, 0, 2))
             m == int(slice(s, 2, 4))
             d == int(slice(s, 4, 6))
         IN  IF ~y.ok \/ ~m.ok \/ ~d.ok
             THEN s
             ELSE LET year == IF s = dict_get(data, "date_of_birth", <<>>)
                              THEN (IF y.val < 30 THEN 2000 + y.val ELSE 1900 + y.val)
                              ELSE 2000 + y.val
                  IN  IF m.val < 1 \/ m.val > 12 \/ d.val < 1 \/ d.val > 31
                      THEN s
                      ELSE int_str(year) \o <<"-">> \o int_str(m.val)
                           \o <<"-">> \o int_str(d.val)

format_date(s, data) ==
    IF s = <<>> \/ Len(s) # 6 THEN None
    ELSE LET y == int(slice(s, 0, 2))
             m == int(slice(s, 2, 4))
             d == int(slice(s, 4, 6))
         IN  IF ~y.ok \/ ~m.ok \/ ~d.ok
             THEN s                                          \* except ValueError
             ELSE LET year == IF s = dict_get(data, "date_of_birth", <<>>)
                              THEN (IF y.val < 30 THEN 2000 + y.val ELSE 1900 + y.val)
                              ELSE 2000 + y.val
                  IN  IF m.val < 1 \/ m.val > 12 \/ d.val < 1 \/ d.val > 31
                      THEN s
                      ELSE int_str(year) \o <<"-">> \o int_str_02d(m.val)
                           \o <<"-">> \o int_str_02d(d.val)

---------------------------------------------------------------------------
(* clean_passport_number, src/utils.py:96-136 *)

\* the table with the entry for O left out
digit_corrections_without_O(c) ==
    CASE c \in {"Q", "D"} -> "0"
      [] c \in {"I", "L"} -> "1"
      [] c = "Z" -> "2"
      [] c = "S" -> "5"
      [] c = "B" -> "8"
      [] c = "G" -> "6"
      [] OTHER -> c

\* digit_corrections.get(c, c)
digit_corrections(c) ==
    CASE c \in {"O", "Q", "D"} -> "0"
      [] c \in {"I", "L"} -> "1"
      [] c = "Z" -> "2"
      [] c = "S" -> "5"
      [] c = "B" -> "8"
      [] c = "G" -> "6"
      [] OTHER -> c

\* the commented-out table of src/utils.py:109-115
prefix_corrections(c) ==
    CASE c = "0" -> "O"
      [] c = "1" -> "I"
      [] c = "5" -> "S"
      [] c = "8" -> "B"
      [] c = "2" -> "Z"
      [] OTHER -> c

\* clean_passport_number with the commented-out prefix correction switched on
clean_passport_number_prefix_corrected(raw) ==
    IF Len(raw) = 0 THEN <<>>
    ELSE LET number == upper(strip(replace_filler(raw)))
             prefix == slice(number, 0, 2)
             corrected_prefix == [i \in 1..Len(prefix) |-> prefix_corrections(prefix[i])]
             suffix == slice(number, 2, Len(number))
             corrected_suffix == [i \in 1..Len(suffix) |-> digit_corrections(suffix[i])]
         IN  filter_isalnum(corrected_prefix \o corrected_suffix)

clean_passport_number(raw) ==
    IF Len(raw) = 0 THEN <<>>
    ELSE LET number == upper(strip(replace_filler(raw)))
             corrected_prefix == slice(number, 0, 2)
             suffix == slice(number, 2, Len(number))
             corrected_suffix == [i \in 1..Len(suffix) |-> digit_corrections(suffix[i])]
         IN  filter_isalnum(corrected_prefix \o corrected_suffix)

---------------------------------------------------------------------------
(* get_nationality, src/utils.py:78-93, and the difflib functions it calls *)

Min(a, b) == IF a < b THEN a ELSE b

\* ord(c) for the characters the model draws codes from
ord(c) ==
    IF c \in UpperLetters THEN 64 + (CHOOSE i \in 1..26 : UpperSeq[i] = c)
    ELSE IF c \in LowerLetters THEN 96 + (CHOOSE i \in 1..26 : LowerSeq[i] = c)
    ELSE IF c \in Digits THEN 48 + DigitVal(c)
    ELSE IF c = "<" THEN 60
    ELSE IF c = "-" THEN 45
    ELSE IF c = "+" THEN 43
    ELSE 32

\* x < y for two str values: by the first differing character, a proper prefix first
RECURSIVE str_less(_, _)
str_less(x, y) ==
    IF Len(y) = 0 THEN FALSE
    ELSE IF Len(x) = 0 THEN TRUE
    ELSE IF Head(x) # Head(y) THEN ord(Head(x)) < ord(Head(y))
    ELSE str_less(Tail(x), Tail(y))

\* the length of the longest common run of a from i (up to ahi) and b from j (up to bhi)
RECURSIVE match_length(_, _, _, _, _, _)
match_length(a, b, i, j, ahi, bhi) ==
    IF i > ahi \/ j > bhi \/ a[i] # b[j] THEN 0
    ELSE 1 + match_length(a, b, i + 1, j + 1, ahi, bhi)

\* SequenceMatcher.find_longest_match with no junk: the longest block
\* a[i..i+k-1] = b[j..j+k-1] inside a[alo..ahi], b[blo..bhi]; of the longest the
\* one that starts earliest in a, and of those the one that starts earliest in b.
find_longest_match(a, b, alo, ahi, blo, bhi) ==
    LET starts == (alo..ahi) \X (blo..bhi)
        len(p) == match_length(a, b, p[1], p[2], ahi, bhi)
        best   == CHOOSE p \in starts :
                      \A q \in starts :
                          \/ len(q) < len(p)
                          \/ len(q) = len(p) /\ p[1] < q[1]
                          \/ len(q) = len(p) /\ p[1] = q[1] /\ p[2] <= q[2]
    IN  IF starts = {} THEN [i |-> alo, j |-> blo, k |-> 0]
        ELSE [i |-> best[1], j |-> best[2], k |-> len(best)]

\* the total size of SequenceMatcher.get_matching_blocks: the longest block,
\* then the same to the left and to the right of it
RECURSIVE matching_size(_, _, _, _, _, _)
matching_size(a, b, alo, ahi, blo, bhi) ==
    LET m == find_longest_match(a, b, alo, ahi, blo, bhi)
    IN  IF m.k = 0 THEN 0
        ELSE m.k
             + (IF alo < m.i /\ blo < m.j
                THEN matching_size(a, b, alo, m.i - 1, blo, m.j - 1) ELSE 0)
             + (IF m.i + m.k <= ahi /\ m.j + m.k <= bhi
                THEN matching_size(a, b, m.i + m.k, ahi, m.j + m.k, bhi) ELSE 0)

\* _calculate_ratio: 2.0 * matches / length, 1.0 when length is 0; kept as a fraction
calculate_ratio(matches, length) ==
    IF length > 0 THEN [num |-> 2 * matches, den |-> length] ELSE [num |-> 1, den |-> 1]

\* SequenceMatcher(a, b).ratio()
ratio(a, b) == calculate_ratio(matching_size(a, b, 1, Len(a), 1, Len(b)), Len(a) + Len(b))

\* SequenceMatcher.quick_ratio(): the characters the two have in common, as multisets
quick_ratio(a, b) ==
    LET count(s, c) == Cardinality({i \in 1..Len(s) : s[i] = c})
        chars == {a[i] : i \in 1..Len(a)}
        RECURSIVE total(_)
        total(S) == IF S = {} THEN 0
                    ELSE LET c == CHOOSE x \in S : TRUE
                         IN  Min(count(a, c), count(b, c)) + total(S \ {c})
    IN  calculate_ratio(total(chars), Len(a) + Len(b))

\* SequenceMatcher.real_quick_ratio()
real_quick_ratio(a, b) == calculate_ratio(Min(Len(a), Len(b)), Len(a) + Len(b))

\* the cutoff=0.6 of src/utils.py:88, as the fraction 6/10
CutoffNum == 6

CutoffDen == 10

\* r >= cutoff
at_least_cutoff(r) == r.num * CutoffDen >= CutoffNum * r.den

\* (score1, x1) < (score2, x2) as Python compares tuples
scored_less(r1, x1, r2, x2) ==
    \/ r1.num * r2.den < r2.num * r1.den
    \/ r1.num * r2.den = r2.num * r1.den /\ str_less(x1, x2)

\* get_close_matches with the cutoff test left out
get_close_matches_no_cutoff(word, possibilities) ==
    LET result == possibilities
    IN  IF result = {} THEN <<>>
        ELSE <<CHOOSE x \in result :
                   \A y \in result \ {x} : scored_less(ratio(y, word), y, ratio(x, word), x)>>

\* difflib.get_close_matches(word, possibilities, n=1, cutoff=0.6): the
\* possibilities that pass the three ratio tests, scored, and the largest
\* (score, x) of them as a list of at most one element
get_close_matches(word, possibilities) ==
    LET result == {x \in possibilities :
                      /\ at_least_cutoff(real_quick_ratio(x, word))
                      /\ at_least_cutoff(quick_ratio(x, word))
                      /\ at_least_cutoff(ratio(x, word))}
    IN  IF result = {} THEN <<>>
        ELSE <<CHOOSE x \in result :
                   \A y \in result \ {x} : scored_less(ratio(y, word), y, ratio(x, word), x)>>

\* get_nationality once nationality_map.json is loaded into nationality_map
get_nationality(c, nationality_map) ==
    IF c \in DOMAIN nationality_map THEN nationality_map[c]
    ELSE LET close_matches == get_close_matches(c, DOMAIN nationality_map)
         IN  IF close_matches # <<>> THEN nationality_map[close_matches[1]]
             ELSE c

---------------------------------------------------------------------------
(* process_passport_mrz, src/utils.py:8-75 *)

\* raw_names.split(" ")[0]: what stands before the first space
RECURSIVE split_space_first(_)
split_space_first(s) ==
    IF Len(s) = 0 \/ Head(s) = " " THEN <<>> ELSE <<Head(s)>> \o split_space_first(Tail(s))

RECURSIVE rstrip_K(_)
rstrip_K(s) ==
    IF Len(s) > 0 /\ s[Len(s)] = "K" THEN rstrip_K(SubSeq(s, 1, Len(s) - 1)) ELSE s

\* re.sub(r'\s*K+$', '', s): the run of K that ends s goes, with the whitespace before it
sub_trailing_K(s) == IF rstrip_K(s) = s THEN s ELSE rstrip(rstrip_K(s))

\* the name fallback of src/utils.py:50-60
resolve_names(data) ==
    LET raw_names   == dict_get(data, "names", <<>>)
        raw_surname == dict_get(data, "surname", <<>>)
    IN  IF Len(raw_names) > 0 /\ Len(split_space_first(raw_names)) > 1
        THEN [given_name |-> sub_trailing_K(strip(replace_filler(raw_names))),
              surname    |-> strip(replace_filler(raw_surname))]
        ELSE [given_name |-> strip(replace_filler(raw_surname)),
              surname    |-> <<>>]

\* clean_dict that drops the empty strings and keeps None
clean_dict_keeps_none(d) == [k \in {x \in DOMAIN d : d[x] # <<>>} |-> d[k]]

\* clean_dict: the keys whose value is None, '' or an empty container go
\* (every value here is a str or None, so the empty value is the empty str)
clean_dict(d) == [k \in {x \in DOMAIN d : d[x] # None /\ d[x] # <<>>} |-> d[k]]

NoMrzError == <<"No MRZ detected in the provided image">>

\* an except clause that does not name ValueError
format_date_except_misses(exc) == exc

\* the handler of format_date's try (utils.py:47-48): a ValueError is caught
\* and answered by date_str; any other exception goes on to the caller
format_date_except(exc) == IF exc = "ValueError" THEN "" ELSE exc

\* the exception that leaves format_date, "" when it returns: inside the try
\* each of the three int() calls raises ValueError on what it cannot parse
format_date_raised(s, data) ==
    IF s = <<>> \/ Len(s) # 6 THEN ""
    ELSE format_date_except(
             IF \/ ~int(slice(s, 0, 2)).ok
                \/ ~int(slice(s, 2, 4)).ok
                \/ ~int(slice(s, 4, 6)).ok
             THEN "ValueError" ELSE "")

\* the exception that leaves process_passport_mrz, "" when it returns: the
\* record is built in the order of utils.py:62-69, so get_nationality's open
\* of the table file (utils.py:80) comes before format_date
process_passport_mrz_raised(detected, data, readable) ==
    IF ~detected THEN ""
    ELSE IF ~readable THEN "FileNotFoundError"
    ELSE format_date_raised(dict_get(data, "date_of_birth", <<>>), data)

\* process_passport_mrz, given what read_mrz found and the loaded table
process_passport_mrz(detected, data, nationality_map) ==
    IF ~detected THEN [k \in {"error"} |-> NoMrzError]
    ELSE LET names == resolve_names(data)
         IN  clean_dict(
                 [nationality |-> get_nationality(dict_get(data, "nationality", <<>>),
                                                  nationality_map),
                  surname     |-> names.surname,
                  given_name  |-> names.given_name,
                  sex         |-> dict_get(data, "sex", <<>>),
                  dob         |-> format_date(dict_get(data, "date_of_birth", <<>>), data),
                  passport_no |-> clean_passport_number(dict_get(data, "number", <<>>))])

---------------------------------------------------------------------------
(* Values the variables of a specification that does not use them keep *)

DateIdle == date_field = "none" /\ date_str = <<>> /\ date_out = None

NumberIdle == raw_number = <<>> /\ cleaned = None /\ cleaned_twice = None

NatIdle == code = <<>> /\ table_file = [k \in {} |-> <<>>] /\ nat_out = None

MrzIdle == mrz_data = [k \in {} |-> <<>>] /\ mrz_detected = FALSE /\ formatted_data = [k \in {} |-> <<>>]

LoadIdle == loads = 0 /\ calls = <<>>

NoResponse == [status |-> 0, detail |-> "", passport_data |-> [k \in {} |-> <<>>]]

ServiceIdle ==
    /\ upload = [profile_ext |-> "", passport_ext |-> "", saved |-> TRUE]
    /\ response = NoResponse
    /\ task_storage = [t \in {} |-> 0]
    /\ background = <<>>

\* no exception so far, and a table file that can be read
NoFailure == raised = "" /\ table_readable = TRUE

---------------------------------------------------------------------------
(* SpecDate: format_date applied to the value of a date field of a record *)

DateDigits == {"0", "1", "2", "3", "9"}

DateNonDigits == {"+", "-", " ", "A"}

AllDigit6 == {<<a, b, c, d, e, f>> : a, b, c, d, e, f \in DateDigits}

\* six characters, one of them not a digit
OneBad6 == {[s EXCEPT ![i] = c] : s \in AllDigit6, i \in 1..6, c \in DateNonDigits}

\* strings of another length than six
OtherLength == {<<>>, <<"0">>, <<"0", "1">>, <<"9", "9", "0", "1", "0">>,
                <<"9", "9", "0", "1", "0", "1", "0">>, <<"1", "9", "9", "9", "0", "1", "0", "1">>}

DateInputs == AllDigit6 \cup OneBad6 \cup OtherLength

DobSamples == {<<"2", "9", "0", "1", "0", "1">>}

\* The records in which field f holds s: the birth-date field itself, or another
\* date field beside an absent, an equal or a different date_of_birth.
DateRecords(f, s) ==
    IF f = "date_of_birth"
    THEN {[k \in {"date_of_birth"} |-> s]}
    ELSE {[k \in {f} |-> s]}
         \cup {[k \in {"date_of_birth", f} |-> IF k = f THEN s ELSE b] :
                 b \in {s} \cup DobSamples}

InitDate ==
    /\ pc = "start"
    /\ date_field \in {"date_of_birth", "expiration_date"}
    /\ date_str \in DateInputs
    /\ mrz_data \in DateRecords(date_field, date_str)
    /\ date_out = None
    /\ mrz_detected = TRUE /\ formatted_data = [k \in {} |-> <<>>]
    /\ NumberIdle /\ NatIdle /\ LoadIdle
    /\ NoFailure /\ ServiceIdle

FormatDate ==
    /\ pc = "start"
    /\ date_out' = format_date(date_str, mrz_data)
    /\ pc' = "done"
    /\ UNCHANGED <<mrz_data, mrz_detected, date_field, date_str, raw_number, cleaned,
                   cleaned_twice, code, table_file, nat_out, formatted_data, loads, calls>>
    /\ UNCHANGED <<raised, table_readable, serviceVars>>

NextDate == FormatDate

SpecDate == InitDate /\ [][NextDate]_vars

\* What the claims say of a date string, computed from its characters alone
AllDigits(s) == \A i \in 1..Len(s) : s[i] \in Digits

TwoDigits(s, i) == 10 * DigitVal(s[i]) + DigitVal(s[i + 1])

ValidYYMMDD(s) ==
    /\ Len(s) = 6 /\ AllDigits(s)
    /\ TwoDigits(s, 3) \in 1..12
    /\ TwoDigits(s, 5) \in 1..31

\* YYYY-MM-DD: four digits, a month in 01..12, a day in 01..31
IsIsoDate(s) ==
    /\ Len(s) = 10
    /\ s[5] = "-" /\ s[8] = "-"
    /\ \A i \in {1, 2, 3, 4, 6, 7, 9, 10} : s[i] \in Digits
    /\ TwoDigits(s, 6) \in 1..12
    /\ TwoDigits(s, 9) \in 1..31

\* C3: a 6-digit string whose month is outside 01..12 or whose day is outside
\* 01..31 is returned by format_date unchanged.
C3_RangePassThrough ==
    (/\ pc = "done"
     /\ Len(date_str) = 6 /\ AllDigits(date_str)
     /\ (TwoDigits(date_str, 3) \notin 1..12 \/ TwoDigits(date_str, 5) \notin 1..31))
    => date_out = date_str

C3_Witness ==
    /\ pc = "done"
    /\ date_str = <<"9", "9", "1", "3", "0", "1">>
    /\ date_out = date_str

\* C4: a 6-character string holding a character that is not an ASCII digit is
\* returned by format_date unchanged, never reformatted.
C4_NonNumericPassThrough ==
    (/\ pc = "done"
     /\ Len(date_str) = 6 /\ ~AllDigits(date_str))
    => date_out = date_str

\* C5: a valid YYMMDD date of the birth-date field gets the year 2000+YY when
\* YY < 30 and 1900+YY otherwise; one of any other field gets 2000+YY, whatever
\* the record's date_of_birth is.
C5_CenturyRule ==
    (pc = "done" /\ ValidYYMMDD(date_str))
    => LET yy == TwoDigits(date_str, 1)
           year == IF date_field = "date_of_birth" /\ yy >= 30 THEN 1900 + yy ELSE 2000 + yy
       IN  /\ IsIsoDate(date_out)
           /\ digits_value(SubSeq(date_out, 1, 4)) = year
           /\ SubSeq(date_out, 6, 7) = SubSeq(date_str, 3, 4)
           /\ SubSeq(date_out, 9, 10) = SubSeq(date_str, 5, 6)

---------------------------------------------------------------------------
(* SpecNumber: clean_passport_number applied to a raw number, then to its own result *)

MaxNumberLen == 4

NumberChars == {"<", "A", "O", "s", "1", "-"}

RECURSIVE StringsUpTo(_, _)
StringsUpTo(chars, n) ==
    IF n = 0 THEN {<<>>}
    ELSE LET shorter == StringsUpTo(chars, n - 1)
         IN  shorter \cup {Append(t, c) : t \in shorter, c \in chars}

NumberInputs ==
    StringsUpTo(NumberChars, MaxNumberLen)
    \cup {<<"A", "B", "1", "O", "2", "O", "4", "5">>, <<"<", "q", "-", "d", "i", "l", "z", "b", "g">>}

InitNumber ==
    /\ pc = "start"
    /\ raw_number \in NumberInputs
    /\ cleaned = None /\ cleaned_twice = None
    /\ DateIdle /\ NatIdle /\ MrzIdle /\ LoadIdle
    /\ NoFailure /\ ServiceIdle

CleanOnce ==
    /\ pc = "start"
    /\ cleaned' = clean_passport_number(raw_number)
    /\ pc' = "once"
    /\ UNCHANGED <<mrz_data, mrz_detected, date_field, date_str, date_out, raw_number,
                   cleaned_twice, code, table_file, nat_out, formatted_data, loads, calls>>
    /\ UNCHANGED <<raised, table_readable, serviceVars>>

CleanTwice ==
    /\ pc = "once"
    /\ cleaned_twice' = clean_passport_number(cleaned)
    /\ pc' = "done"
    /\ UNCHANGED <<mrz_data, mrz_detected, date_field, date_str, date_out, raw_number,
                   cleaned, code, table_file, nat_out, formatted_data, loads, calls>>
    /\ UNCHANGED <<raised, table_readable, serviceVars>>

NextNumber == CleanOnce \/ CleanTwice

SpecNumber == InitNumber /\ [][NextNumber]_vars

\* C6: clean_passport_number applied to its own result returns that result.
C6_Idempotent == pc = "done" => cleaned_twice = cleaned

\* a non-alphanumeric in the first two characters is dropped, and the corrected
\* suffix character 0 moves into the prefix of the second application
C6_Witness ==
    /\ pc = "done"
    /\ raw_number = <<"A", "-", "O", "1">>
    /\ cleaned = <<"A", "0", "1">>
    /\ cleaned_twice = cleaned

ConfusionDomain == {"O", "Q", "D", "I", "L", "Z", "S", "B", "G"}

ConfusionImage(c) ==
    IF c \in {"O", "Q", "D"} THEN "0"
    ELSE IF c \in {"I", "L"} THEN "1"
    ELSE IF c = "Z" THEN "2"
    ELSE IF c = "S" THEN "5"
    ELSE IF c = "B" THEN "8"
    ELSE "6"

\* C7: the result holds only uppercase letters and digits; the alphanumerics
\* among the first two characters of the filler-replaced, stripped, uppercased
\* input come first, as they are; every alphanumeric after them follows in
\* order, replaced by its image when it is in the confusion table's domain and
\* kept otherwise, so none of O,Q,D,I,L,Z,S,B,G comes from the suffix; the
\* empty input gives the empty result.
C7_CleanedShape ==
    pc # "start" =>
        LET number == upper(strip(replace_filler(raw_number)))
            head2  == filter_isalnum(slice(number, 0, 2))
            rest   == filter_isalnum(slice(number, 2, Len(number)))
        IN  /\ \A i \in 1..Len(cleaned) : cleaned[i] \in UpperLetters \cup Digits
            /\ Len(cleaned) = Len(head2) + Len(rest)
            /\ \A i \in 1..Len(head2) : cleaned[i] = head2[i]
            /\ \A j \in 1..Len(rest) :
                   /\ cleaned[Len(head2) + j] \notin ConfusionDomain
                   /\ cleaned[Len(head2) + j] =
                          IF rest[j] \in ConfusionDomain THEN ConfusionImage(rest[j]) ELSE rest[j]
            /\ (raw_number = <<>> => cleaned = <<>>)

C7_Witness ==
    /\ pc = "once"
    /\ raw_number = <<"A", "B", "1", "O", "2", "O", "4", "5">>
    /\ cleaned = <<"A", "B", "1", "0", "2", "0", "4", "5">>

---------------------------------------------------------------------------
(* SpecNat: get_nationality applied to a code under a constructed table *)

MaxCodeLen == 3

CodeChars == {"N", "P", "L", "I", "D"}

NPL == <<"N", "P", "L">>

TableKeys == {NPL, <<"N", "P", "I">>, <<"I", "N", "D">>, <<"N", "L", "D">>, <<"D">>,
              <<"P", "L">>}

CountryName(k) ==
    CASE k = NPL -> <<"N", "e", "p", "a", "l">>
      [] k = <<"N", "P", "I">> -> <<"N", "i", "p">>
      [] k = <<"I", "N", "D">> -> <<"I", "n", "d", "i", "a">>
      [] k = <<"N", "L", "D">> -> <<"N", "e", "t", "h">>
      [] k = <<"D">> -> <<"G", "e", "r", "m", "a", "n", "y">>
      [] k = <<"P", "L">> -> <<"P", "o", "l">>

MaxTableSize == 2

Tables ==
    {[k \in K |-> CountryName(k)] : K \in {S \in SUBSET TableKeys : Cardinality(S) <= MaxTableSize}}

InitNat ==
    /\ pc = "start"
    /\ code \in StringsUpTo(CodeChars, MaxCodeLen)
    /\ table_file \in Tables
    /\ nat_out = None
    /\ loads = 0 /\ calls = <<>>
    /\ DateIdle /\ NumberIdle /\ MrzIdle
    /\ NoFailure /\ ServiceIdle

\* One call of get_nationality: the file is opened and loaded, then looked up
GetNationality ==
    /\ pc = "start"
    /\ loads' = loads + 1
    /\ nat_out' = get_nationality(code, table_file)
    /\ pc' = "done"
    /\ UNCHANGED <<mrz_data, mrz_detected, date_field, date_str, date_out, raw_number,
                   cleaned, cleaned_twice, code, table_file, formatted_data, calls>>
    /\ UNCHANGED <<raised, table_readable, serviceVars>>

NextNat == GetNationality

SpecNat == InitNat /\ [][NextNat]_vars

\* similarity(k, c) >= 0.6 and similarity(k1, c) <= similarity(k2, c), the
\* similarity being difflib's ratio of the key to the code
Similar(k, c) == 10 * ratio(k, c).num >= 6 * ratio(k, c).den

NoMoreSimilar(k1, k2, c) == ratio(k1, c).num * ratio(k2, c).den <= ratio(k2, c).num * ratio(k1, c).den

\* C9: a code that is a key of the table resolves to that key's name; any
\* other code resolves to the name of a most similar key when that key's
\* similarity is at least 0.6, and to the raw code itself when no key is that
\* similar.
C9_Resolution ==
    pc = "done" =>
        IF code \in DOMAIN table_file THEN nat_out = table_file[code]
        ELSE LET keys == DOMAIN table_file
                 best == {k \in keys : \A k2 \in keys : NoMoreSimilar(k2, k, code)}
             IN  IF \E k \in keys : Similar(k, code)
                 THEN \E k \in best : Similar(k, code) /\ nat_out = table_file[k]
                 ELSE nat_out = code

C9_Witness ==
    /\ pc = "done"
    /\ table_file = [k \in {NPL} |-> CountryName(k)]
    /\ code = <<"N", "P", "I">>
    /\ nat_out = <<"N", "e", "p", "a", "l">>

---------------------------------------------------------------------------
(* SpecMrz: process_passport_mrz applied to what the MRZ reader returned *)

MaxNameLen == 3

NameChars == {"<", " ", "J", "K"}

\* a key the reader left out of its mapping
Absent == <<"absent">>

SurnameInputs == {Absent, <<"<", "S", " ">>}

NationalityInputs == {Absent, <<"N", "P", "I">>}

SexInputs == {Absent, <<>>, <<"M">>}

DobInputs == {Absent, <<>>, <<"2", "9", "0", "1", "0", "1">>, <<"9", "9", "1", "3", "4", "0">>,
              <<"9", "9", "0", "1">>, <<"9", "9", "A", "1", "<", "1">>}

PassportNumberInputs == {Absent, <<"<", "<">>, <<"A", "B", "1", "O">>}

\* the mapping with the keys whose value is not Absent
present(f) == [k \in {x \in DOMAIN f : f[x] # Absent} |-> f[k]]

RawRecords ==
    {present([names |-> n, surname |-> s, nationality |-> c, sex |-> x,
              date_of_birth |-> d, number |-> p]) :
        n \in StringsUpTo(NameChars, MaxNameLen) \cup {Absent}, s \in SurnameInputs,
        c \in NationalityInputs, x \in SexInputs, d \in DobInputs,
        p \in PassportNumberInputs}

MrzTable == [k \in {NPL, <<"I", "N", "D">>} |-> CountryName(k)]

InitMrz ==
    /\ pc = "start"
    /\ \/ mrz_detected = TRUE /\ mrz_data \in RawRecords
       \/ mrz_detected = FALSE /\ mrz_data = [k \in {} |-> <<>>]
    /\ table_file = MrzTable
    /\ formatted_data = [k \in {} |-> <<>>]
    /\ code = <<>> /\ nat_out = None
    /\ loads = 0 /\ calls = <<>>
    /\ DateIdle /\ NumberIdle
    /\ NoFailure /\ ServiceIdle

\* One call of process_passport_mrz; get_nationality opens and loads the table
\* file once in a call that got an MRZ
ProcessPassportMrz ==
    /\ pc = "start"
    /\ raised' = process_passport_mrz_raised(mrz_detected, mrz_data, table_readable)
    /\ formatted_data' = IF raised' = ""
                         THEN process_passport_mrz(mrz_detected, mrz_data, table_file)
                         ELSE formatted_data
    /\ loads' = IF mrz_detected /\ table_readable THEN loads + 1 ELSE loads
    /\ pc' = "done"
    /\ UNCHANGED <<mrz_data, mrz_detected, date_field, date_str, date_out, raw_number,
                   cleaned, cleaned_twice, code, table_file, nat_out, calls>>
    /\ UNCHANGED <<table_readable, serviceVars>>

NextMrz == ProcessPassportMrz

SpecMrz == InitMrz /\ [][NextMrz]_vars

MrzKeys == {"names", "surname", "nationality", "sex", "date_of_birth", "number"}

\* C1: the record returned for a detected MRZ has no key whose value is None
\* or empty, and is the empty mapping when every raw field is empty or absent.
C1_NoEmptyValues ==
    (pc = "done" /\ mrz_detected) =>
        /\ \A k \in DOMAIN formatted_data : formatted_data[k] # None /\ Len(formatted_data[k]) > 0
        /\ (\A k \in MrzKeys : dict_get(mrz_data, k, <<>>) = <<>>) => DOMAIN formatted_data = {}

C1_Witness ==
    /\ pc = "done" /\ mrz_detected
    /\ DOMAIN mrz_data = {"names", "date_of_birth"}
    /\ mrz_data["names"] = <<>> /\ mrz_data["date_of_birth"] = <<>>
    /\ DOMAIN formatted_data = {}

\* C2 as stated: whenever the record has the key dob, its value is a date
\* YYYY-MM-DD.
C2_DobIsIso ==
    (pc = "done" /\ mrz_detected /\ "dob" \in DOMAIN formatted_data)
        => IsIsoDate(formatted_data["dob"])

\* C2 amended: whenever the record has the key dob, its value is a date
\* YYYY-MM-DD or the raw 6-character date_of_birth unchanged; a raw
\* date_of_birth that is absent, empty or not 6 characters long gives no dob.
C2_DobIsIsoOrRaw ==
    (pc = "done" /\ mrz_detected) =>
        LET raw == dict_get(mrz_data, "date_of_birth", <<>>)
        IN  IF "dob" \in DOMAIN formatted_data
            THEN /\ Len(raw) = 6
                 /\ IsIsoDate(formatted_data["dob"]) \/ formatted_data["dob"] = raw
            ELSE Len(raw) # 6

C2_Witness ==
    /\ pc = "done" /\ mrz_detected
    /\ "date_of_birth" \in DOMAIN mrz_data
    /\ mrz_data["date_of_birth"] = <<"9", "9", "1", "3", "4", "0">>
    /\ "dob" \in DOMAIN formatted_data
    /\ formatted_data["dob"] = <<"9", "9", "1", "3", "4", "0">>

\* the first whitespace-delimited token of a stripped string
RECURSIVE FirstToken(_)
FirstToken(s) ==
    IF Len(s) = 0 \/ Head(s) \in Whitespace THEN <<>> ELSE <<Head(s)>> \o FirstToken(Tail(s))

\* C8: with both fields cleaned ('<' to space, stripped), a non-empty names
\* whose first token is longer than one character gives given_name = names
\* without its trailing K run and surname = the cleaned surname; every other
\* names gives given_name = the cleaned surname and an empty surname.
C8_NameResolution ==
    (pc = "done" /\ mrz_detected) =>
        LET names   == strip(replace_filler(dict_get(mrz_data, "names", <<>>)))
            surname == strip(replace_filler(dict_get(mrz_data, "surname", <<>>)))
            given   == dict_get(formatted_data, "given_name", <<>>)
            family  == dict_get(formatted_data, "surname", <<>>)
        IN  IF Len(names) > 0 /\ Len(FirstToken(names)) > 1
            THEN given = sub_trailing_K(names) /\ family = surname
            ELSE given = surname /\ family = <<>>

OutputKeys == {"nationality", "surname", "given_name", "sex", "dob", "passport_no"}

\* C11: with a readable table, process_passport_mrz raises nothing for any
\* mapping of the six raw keys to strings: the call ends by returning a mapping
\* (the record of a detected MRZ, or the error record).
C11_NeverRaises ==
    (pc = "done" /\ table_readable) =>
        /\ raised = ""
        /\ IF mrz_detected THEN DOMAIN formatted_data \subseteq OutputKeys
           ELSE DOMAIN formatted_data = {"error"}

\* a birth date whose parts int() cannot parse: the ValueError stays inside format_date
C11_Witness ==
    /\ pc = "done" /\ table_readable /\ mrz_detected
    /\ "date_of_birth" \in DOMAIN mrz_data
    /\ mrz_data["date_of_birth"] = <<"9", "9", "A", "1", "<", "1">>
    /\ raised = ""
    /\ "dob" \in DOMAIN formatted_data
    /\ formatted_data["dob"] = <<"9", "9", "A", "1", "<", "1">>


---------------------------------------------------------------------------
(* SpecLoad: callers of get_nationality, one call after another in a process *)

NumCallers == 2

MaxLoads == 3

Callers == 1..NumCallers

LoadCodes == {NPL, <<"N", "P", "I">>, <<"P", "P", "P">>}

InitLoad ==
    /\ pc = "start"
    /\ table_file \in Tables
    /\ loads = 0
    /\ calls = [c \in Callers |-> [code |-> <<>>, result |-> None, returned |-> 0]]
    /\ code = <<>> /\ nat_out = None
    /\ DateIdle /\ NumberIdle /\ MrzIdle
    /\ NoFailure /\ ServiceIdle

\* Caller c's call of get_nationality: the function opens nationality_map.json
\* and loads it (src/utils.py:80-81) before it looks the code up; it has no
\* await, so the call runs from its first line to its return.
CallGetNationality(c) ==
    /\ loads < MaxLoads
    /\ \E x \in LoadCodes :
          /\ loads' = loads + 1
          /\ calls' = [calls EXCEPT ![c] = [code     |-> x,
                                            result   |-> get_nationality(x, table_file),
                                            returned |-> @.returned + 1]]
    /\ UNCHANGED <<pc, mrz_data, mrz_detected, date_field, date_str, date_out, raw_number,
                   cleaned, cleaned_twice, code, table_file, nat_out, formatted_data>>
    /\ UNCHANGED <<raised, table_readable, serviceVars>>

NextLoad == \E c \in Callers : CallGetNationality(c)

SpecLoad == InitLoad /\ [][NextLoad]_vars

\* C10: over any number of calls the table resource is loaded at most once.
C10_LoadedAtMostOnce == loads <= 1

---------------------------------------------------------------------------
(* upload_images, src/main.py:175-224 *)

allowed_image_exts == {"png", "jpg", "jpeg", "gif", "bmp"}

\* HTTPException(status_code, detail) as the response the client gets
HTTPException(status_code, detail) ==
    [status |-> status_code, detail |-> detail, passport_data |-> [k \in {} |-> <<>>]]

\* the try block of main.py:211-214, given the outcome of the call of
\* process_passport_mrz at line 212 (exc: the exception it raised, "" when
\* none; mrz: the value it returned): the exception the block raises, the
\* response an HTTPException raised in it carries, and the value of mrz
upload_images_try(exc, mrz) ==
    IF exc # "" THEN [exc |-> exc, http |-> NoResponse, mrz |-> [k \in {} |-> <<>>]]
    ELSE IF "error" \in DOMAIN mrz
    THEN [exc |-> "HTTPException", http |-> HTTPException(400, mrz["error"][1]), mrz |-> mrz]
    ELSE [exc |-> "", http |-> NoResponse, mrz |-> mrz]

\* upload_images: the response to one request, given the outcome of the call
\* of process_passport_mrz it makes when it gets as far as line 212
upload_images(u, exc, mrz) ==
    IF u.profile_ext \notin allowed_image_exts
    THEN HTTPException(400, "Unsupported profile image type")
    ELSE IF u.passport_ext \notin allowed_image_exts
    THEN HTTPException(400, "Unsupported passport image type")
    ELSE IF ~u.saved
    THEN HTTPException(500, "Passport image file was not saved.")
    ELSE IF upload_images_try(exc, mrz).exc # ""
    \* except Exception (main.py:215-217): HTTPException is an Exception,
    \* so the 400 raised in the try block is caught here as well
    THEN HTTPException(500, "Failed to process passport MRZ data")
    ELSE [status |-> 200, detail |-> "Images uploaded successfully",
          passport_data |-> upload_images_try(exc, mrz).mrz]

\* the request passes the tests of main.py:187-208 and calls process_passport_mrz
reaches_mrz_step(u) ==
    /\ u.profile_ext \in allowed_image_exts
    /\ u.passport_ext \in allowed_image_exts
    /\ u.saved

---------------------------------------------------------------------------
(* SpecUpload: one upload_images request *)

UploadExts == {"png", "jpeg", "pdf"}

UploadRecords ==
    {present([names |-> n, surname |-> <<"<", "S", " ">>, nationality |-> c, sex |-> <<"M">>,
              date_of_birth |-> d, number |-> <<"A", "B", "1", "O">>]) :
        n \in {Absent, <<"J", "K">>}, c \in NationalityInputs, d \in DobInputs}

InitUpload ==
    /\ pc = "start"
    /\ upload \in [profile_ext : UploadExts, passport_ext : UploadExts, saved : BOOLEAN]
    /\ \/ mrz_detected = TRUE /\ mrz_data \in UploadRecords
       \/ mrz_detected = FALSE /\ mrz_data = [k \in {} |-> <<>>]
    /\ table_readable \in BOOLEAN
    /\ table_file = MrzTable
    /\ formatted_data = [k \in {} |-> <<>>]
    /\ raised = ""
    /\ response = NoResponse
    /\ task_storage = [t \in {} |-> 0] /\ background = <<>>
    /\ code = <<>> /\ nat_out = None
    /\ loads = 0 /\ calls = <<>>
    /\ DateIdle /\ NumberIdle

\* One upload_images request, from its first line to its response
UploadImages ==
    /\ pc = "start"
    /\ raised' = IF reaches_mrz_step(upload)
                 THEN process_passport_mrz_raised(mrz_detected, mrz_data, table_readable)
                 ELSE raised
    /\ formatted_data' = IF reaches_mrz_step(upload) /\ raised' = ""
                         THEN process_passport_mrz(mrz_detected, mrz_data, table_file)
                         ELSE formatted_data
    /\ loads' = IF reaches_mrz_step(upload) /\ mrz_detected /\ table_readable
                THEN loads + 1 ELSE loads
    /\ response' = upload_images(upload, raised', formatted_data')
    /\ pc' = "done"
    /\ UNCHANGED <<mrz_data, mrz_detected, date_field, date_str, date_out, raw_number,
                   cleaned, cleaned_twice, code, table_file, nat_out, calls, table_readable,
                   upload, task_storage, background>>

NextUpload == UploadImages

SpecUpload == InitUpload /\ [][NextUpload]_vars

\* the request passed the extension and saved-file tests and reached the MRZ step
ReachedMrzStep == pc = "done" /\ reaches_mrz_step(upload)

\* C12: when no MRZ is detected the client gets HTTP 400 with the "No MRZ
\* detected" detail, which differs from the HTTP 500 "Failed to process
\* passport MRZ data" of a processing failure; and no passport_data record
\* carries the error indicator.
C12_NoMrzIsDistinct400 ==
    /\ (ReachedMrzStep /\ ~mrz_detected) =>
           /\ response.status = 400
           /\ response.detail = "No MRZ detected in the provided image"
    /\ (ReachedMrzStep /\ mrz_detected /\ raised # "") =>
           /\ response.status = 500
           /\ response.detail = "Failed to process passport MRZ data"
    /\ "error" \notin DOMAIN response.passport_data

---------------------------------------------------------------------------
(* The ledger of form tasks, src/main.py:67-164 *)

\* TaskStatus(task_id, status, message, created_at, completed_at=None); the
\* two datetimes are kept as set / not set
TaskStatus(status, message) ==
    [status |-> status, message |-> message, created_at |-> TRUE, completed_at |-> FALSE]

\* submit_form (main.py:105-135) for form_data.id = id: the ledger, the
\* background tasks and the response after it
submit_form(id, storage, tasks) ==
    IF id \in DOMAIN storage
    THEN [storage |-> storage, tasks |-> tasks,
          response |-> HTTPException(400, "Task already exists")]
    ELSE [storage  |-> [t \in DOMAIN storage \cup {id} |->
                           IF t = id THEN TaskStatus("queued", "Task queued for processing")
                           ELSE storage[t]],
          tasks    |-> Append(tasks, [id |-> id, pc |-> "pending"]),
          response |-> [status |-> 200, detail |-> "queued",
                        passport_data |-> [k \in {} |-> <<>>]]]

\* delete_task (main.py:153-164)
delete_task(id, storage) ==
    IF id \notin DOMAIN storage
    THEN [storage |-> storage, response |-> HTTPException(404, "Task not found")]
    ELSE IF storage[id].status = "processing"
    THEN [storage  |-> storage,
          response |-> HTTPException(400, "Cannot delete a task that is currently processing")]
    ELSE [storage  |-> [t \in DOMAIN storage \ {id} |-> storage[t]],
          response |-> [status |-> 200, detail |-> "deleted",
                        passport_data |-> [k \in {} |-> <<>>]]]

\* process_form_task up to its await of process_form (main.py:69-78): the
\* entry becomes processing. With no entry for the id the subscript raises
\* KeyError inside the try, the handler's own subscript (main.py:96) raises it
\* again, and the task ends with the ledger as it was.
process_form_task_start(id, storage) ==
    IF id \notin DOMAIN storage THEN [storage |-> storage, pc |-> "crashed"]
    ELSE [storage |-> [storage EXCEPT ![id].status = "processing",
                                      ![id].message = "Processing form submission..."],
          pc |-> "running"]

\* process_form_task from the return of process_form on (main.py:80-102):
\* outcome is "success", "failure" (process_form returned False) or
\* "exception" (it raised); the callback call changes nothing of the ledger
process_form_task_finish(id, outcome, storage) ==
    IF id \notin DOMAIN storage THEN [storage |-> storage, pc |-> "crashed"]
    ELSE [storage |->
              [storage EXCEPT
                  ![id].status = IF outcome = "success" THEN "completed" ELSE "failed",
                  ![id].message = IF outcome = "success" THEN "Form processed successfully"
                                  ELSE IF outcome = "failure" THEN "Form processing failed"
                                  ELSE "Task failed",
                  ![id].completed_at = TRUE],
          pc |-> "done"]

---------------------------------------------------------------------------
(* SpecTasks: submit_form, delete_task and the background tasks, interleaved *)

MaxSubmits == 3

TaskIds == {"t1", "t2"}

InitTasks ==
    /\ pc = "start"
    /\ task_storage = [t \in {} |-> 0]
    /\ background = <<>>
    /\ response = NoResponse
    /\ upload = [profile_ext |-> "", passport_ext |-> "", saved |-> TRUE]
    /\ code = <<>> /\ table_file = [k \in {} |-> <<>>] /\ nat_out = None
    /\ DateIdle /\ NumberIdle /\ MrzIdle /\ LoadIdle /\ NoFailure

\* POST /submit-form
SubmitForm(id) ==
    /\ id \in DOMAIN task_storage \/ Len(background) < MaxSubmits
    /\ LET r == submit_form(id, task_storage, background)
       IN  /\ task_storage' = r.storage
           /\ background' = r.tasks
           /\ response' = r.response
    /\ UNCHANGED <<pipelineVars, upload>>

\* DELETE /task/{task_id}
DeleteTask(id) ==
    /\ LET r == delete_task(id, task_storage)
       IN  /\ task_storage' = r.storage
           /\ response' = r.response
    /\ UNCHANGED <<pipelineVars, upload, background>>

\* The i-th background task runs from its start to its first await
StartTask(i) ==
    /\ background[i].pc = "pending"
    /\ LET r == process_form_task_start(background[i].id, task_storage)
       IN  /\ task_storage' = r.storage
           /\ background' = [background EXCEPT ![i].pc = r.pc]
    /\ UNCHANGED <<pipelineVars, upload, response>>

\* process_form returns or raises in the i-th background task, which runs on to its end
FinishTask(i) ==
    /\ background[i].pc = "running"
    /\ \E outcome \in {"success", "failure", "exception"} :
          LET r == process_form_task_finish(background[i].id, outcome, task_storage)
          IN  /\ task_storage' = r.storage
              /\ background' = [background EXCEPT ![i].pc = r.pc]
    /\ UNCHANGED <<pipelineVars, upload, response>>

NextTasks ==
    \/ \E id \in TaskIds : SubmitForm(id)
    \/ \E id \in TaskIds : DeleteTask(id)
    \/ \E i \in 1..Len(background) : StartTask(i)
    \/ \E i \in 1..Len(background) : FinishTask(i)

SpecTasks == InitTasks /\ [][NextTasks]_vars

\* C13: a task leaves task_storage only when its status is completed or
\* failed; a queued or processing task is never removed.
C13_DeleteOnlyFinished ==
    [][\A t \in DOMAIN task_storage :
           t \notin DOMAIN task_storage' => task_storage[t].status \in {"completed", "failed"}]_vars

\* C14: while an entry stays in task_storage its status only moves queued ->
\* processing -> completed or failed, completed_at is set exactly when the
\* status is completed or failed, and a completed or failed status never
\* changes.
C14_StatusLifecycle ==
    [][\A t \in DOMAIN task_storage \cap DOMAIN task_storage' :
           LET old == task_storage[t].status
               new == task_storage'[t].status
           IN  /\ old # new => <<old, new>> \in {<<"queued", "processing">>,
                                                  <<"processing", "completed">>,
                                                  <<"processing", "failed">>}
               /\ task_storage'[t].completed_at <=> new \in {"completed", "failed"}]_vars

====
